---- MODULE Spec2Model ----
(***************************************************************************)
(* SiteScout CRM agent (src/main.py): the lead scout (synthetic and         *)
(* model-backed), the audit retry loop, and the two endpoints that wrap     *)
(* them.                                                                    *)
(*                                                                          *)
(* Strings are sequences of pieces whose concatenation is the string; a     *)
(* space is a piece of its own, so that replace(" ", x), lower() and        *)
(* capitalize() are computed piece by piece.  Values that cross the JSON    *)
(* boundary are records [t, s, n]: a type tag, the pieces of a string, a    *)
(* number (ratings in tenths).                                              *)
(***************************************************************************)
EXTENDS Integers, Sequences, FiniteSets, TLC

\* ------------------------------------------------------------------ bounds
\* Size of the reduced generator state space (CPython's generator has
\* 2^19937 states; every draw below is a function of the state alone).
RngMod == 64
\* Pages range over -NegPages .. MaxPage.
NegPages == 1
MaxPage == 3
\* Longest JSON array the model client answers with, besides the one of
\* exactly NumLeads well-formed items.
MaxItems == 2

\* ------------------------------------------------------- program constants
NumLeads == 10
max_retries == 3
retry_delay == 60

Pages == (0 - NegPages)..MaxPage
Industries == { <<"spa">>, <<"HVAC">> }
Locations == { <<"Ely">>, <<"Bend", " ", "OR">> }

base_names == <<"Apex", "Elite", "Prime", "Cornerstone", "Trusted", "Summit",
                "Vanguard", "Pinnacle", "NextLevel", "Local">>
suffixes == <<"Solutions", "Services", "Inc", "Co", "Group", "Partners",
              "Associates", "Pros">>

\* ------------------------------------------------------------------ values
Str(pieces) == [t |-> "str", s |-> pieces, n |-> 0]
Num(k) == [t |-> "num", s |-> <<>>, n |-> k]
Null == [t |-> "null", s |-> <<>>, n |-> 0]

\* ----------------------------------------------------------------- strings
DigitTok == <<"0", "1", "2", "3", "4", "5", "6", "7", "8", "9">>

RECURSIVE NatStr(_)
NatStr(k) == IF k < 10 THEN <<DigitTok[k + 1]>>
             ELSE NatStr(k \div 10) \o <<DigitTok[(k % 10) + 1]>>

\* str(k) / f"{k}" of an int
IntStr(k) == IF k < 0 THEN <<"-">> \o NatStr(0 - k) ELSE NatStr(k)

\* str.lower() of one piece
LowerTok(p) ==
    CASE p = "Apex" -> "apex" [] p = "Elite" -> "elite" [] p = "Prime" -> "prime"
      [] p = "Cornerstone" -> "cornerstone" [] p = "Trusted" -> "trusted"
      [] p = "Summit" -> "summit" [] p = "Vanguard" -> "vanguard"
      [] p = "Pinnacle" -> "pinnacle" [] p = "NextLevel" -> "nextlevel"
      [] p = "Local" -> "local" [] p = "Solutions" -> "solutions"
      [] p = "Services" -> "services" [] p = "Inc" -> "inc" [] p = "Co" -> "co"
      [] p = "Group" -> "group" [] p = "Partners" -> "partners"
      [] p = "Associates" -> "associates" [] p = "Pros" -> "pros"
      [] p = "HVAC" -> "hvac" [] p = "Hvac" -> "hvac" [] p = "Spa" -> "spa"
      [] p = "Unknown" -> "unknown" [] p = "Joe's" -> "joe's"
      [] p = "Diner" -> "diner"
      [] OTHER -> p

\* first letter upper-cased, the rest lower-cased, of one piece
CapTok(p) ==
    CASE p = "spa" -> "Spa" [] p = "HVAC" -> "Hvac" [] OTHER -> p

Lower(pieces) == [k \in 1..Len(pieces) |-> LowerTok(pieces[k])]

\* str.capitalize(): the first character upper-cased, everything else lower
Capitalize(pieces) ==
    [k \in 1..Len(pieces) |->
        IF k = 1 THEN CapTok(pieces[k]) ELSE LowerTok(pieces[k])]

\* str.replace(" ", with); with = "" drops the spaces
RECURSIVE ReplaceSpace(_, _)
ReplaceSpace(pieces, with) ==
    IF pieces = <<>> THEN <<>>
    ELSE LET h == Head(pieces)
             r == ReplaceSpace(Tail(pieces), with)
         IN  IF h = " " THEN (IF with = "" THEN r ELSE <<with>> \o r)
             ELSE <<h>> \o r

\* The sum of the character codes of a piece, which the hashes below fold.
PieceCode(p) ==
    CASE p = "0" -> 48 [] p = "1" -> 49 [] p = "2" -> 50 [] p = "3" -> 51
      [] p = "4" -> 52 [] p = "5" -> 53 [] p = "6" -> 54 [] p = "7" -> 55
      [] p = "8" -> 56 [] p = "9" -> 57 [] p = "-" -> 45 [] p = " " -> 32
      [] p = "spa" -> 324 [] p = "HVAC" -> 290 [] p = "Ely" -> 298
      [] p = "Bend" -> 377 [] p = "OR" -> 161 [] p = "Spa" -> 292
      [] p = "Hvac" -> 386 [] p = "Joe's" -> 440 [] p = "Diner" -> 498
      [] p = "Unknown" -> 752 [] p = "Apex" -> 398 [] p = "Elite" -> 499
      [] p = "Prime" -> 509 [] p = "Cornerstone" -> 1170
      [] p = "Trusted" -> 747 [] p = "Summit" -> 639
      [] p = "Vanguard" -> 824 [] p = "Pinnacle" -> 810
      [] p = "NextLevel" -> 919 [] p = "Local" -> 491
      [] p = "Solutions" -> 976 [] p = "Services" -> 836 [] p = "Inc" -> 282
      [] p = "Co" -> 178 [] p = "Group" -> 525 [] p = "Partners" -> 847
      [] p = "Associates" -> 1039 [] p = "Pros" -> 420
      [] OTHER -> 1

RECURSIVE FoldHash(_, _, _, _)
FoldHash(pieces, h, mult, modulus) ==
    IF pieces = <<>> THEN h
    ELSE FoldHash(Tail(pieces), (h * mult + PieceCode(Head(pieces))) % modulus,
                  mult, modulus)

\* ------------------------------------------------ the process-wide generator
\* random.seed(f"{industry}{location}{page}"): the state is a function of the
\* concatenated string alone.
SeedKey(industry, location, page) == industry \o location \o IntStr(page)
SeedOf(key) == FoldHash(key, 0, 31, RngMod)

\* One draw advances the state; the value drawn is read off the new state.
Step(s) == (5 * s + 3) % RngMod
Choice(s, k) == (s % k) + 1               \* random.choice: an index of 1..k
RandInt(s, lo, hi) == lo + (s % (hi - lo + 1))      \* random.randint(lo, hi)
RandomAbove(s, tenths) == 10 * s > tenths * RngMod  \* random.random() > t/10
\* round(random.uniform(3.5, 4.9), 1), in tenths
Rating(s) == 35 + ((2 * 14 * s + RngMod) \div (2 * RngMod))

\* hash(name): a function of the string and of the per-process hash seed
PyHash(pieces, salt) == FoldHash(pieces, salt, 33, 1000)
\* hashlib.md5(name.encode()).hexdigest()[:10]
Md5Hex10(pieces) == IntStr(FoldHash(pieces, 7, 131, 100000))

\* ------------------------------------------------------ mock_scout_service
MockNameLate(base, industry, suffix, page) ==
    <<base, " ">> \o Capitalize(industry) \o <<" ", suffix>>
        \o (IF page > 2 THEN <<" ">> \o IntStr(page) ELSE <<>>)

\* name = f"{base} {industry.capitalize()} {suffix}", plus f" {page}" when
\* page > 1
MockName(base, industry, suffix, page) ==
    <<base, " ">> \o Capitalize(industry) \o <<" ", suffix>>
        \o (IF page > 1 THEN <<" ">> \o IntStr(page) ELSE <<>>)

SearchUrl(name, location) ==
    <<"https://www.google.com/search?q=">> \o ReplaceSpace(name, "+")
        \o <<"+">> \o ReplaceSpace(location, "+")

Social(platform, prefix, sanitized) ==
    [k |-> platform, url |-> <<prefix>> \o sanitized]

\* One pass of the loop body from generator state s: the record appended and
\* the state the ten draws leave.
MockRecord(s, industry, location, page, salt) ==
    LET s1 == Step(s)      \* has_site
        s2 == Step(s1)     \* base
        s3 == Step(s2)     \* suffix
        s4 == Step(s3)     \* linkedin
        s5 == Step(s4)     \* twitter
        s6 == Step(s5)     \* facebook
        s7 == Step(s6)     \* rating
        s8 == Step(s7)     \* review_count
        s9 == Step(s8)     \* phone, first group
        s10 == Step(s9)    \* phone, second group
        has_site == Choice(s1, 5) = 1
        base == base_names[Choice(s2, Len(base_names))]
        suffix == suffixes[Choice(s3, Len(suffixes))]
        name == MockName(base, industry, suffix, page)
        sanitized == Lower(ReplaceSpace(name, ""))
        email == IF has_site
                 THEN <<"contact@", LowerTok(base)>> \o Lower(industry) \o <<".com">>
                 ELSE sanitized \o <<"@gmail.com">>
        socials ==
            (IF RandomAbove(s4, 3)
             THEN <<Social("linkedin", "https://linkedin.com/company/", sanitized)>>
             ELSE <<>>)
            \o (IF RandomAbove(s5, 6)
                THEN <<Social("twitter", "https://twitter.com/", sanitized)>>
                ELSE <<>>)
            \o (IF RandomAbove(s6, 6)
                THEN <<Social("facebook", "https://facebook.com/", sanitized)>>
                ELSE <<>>)
    IN  [rec |->
            [id |-> Str(<<"biz_">> \o IntStr(PyHash(name, salt))),
             name |-> Str(name),
             industry |-> Str(industry),
             location |-> Str(location),
             website |-> IF has_site
                         THEN Str(<<"www.", LowerTok(base)>> \o Lower(industry)
                                  \o <<".com">>)
                         ELSE Null,
             phone |-> Str(<<"(555) ">> \o IntStr(RandInt(s9, 100, 999)) \o <<"-">>
                           \o IntStr(RandInt(s10, 1000, 9999))),
             email |-> Str(email),
             social_media |-> socials,
             source_url |-> Str(SearchUrl(name, location)),
             rating |-> Num(Rating(s7)),
             review_count |-> Num(RandInt(s8, 10, 500))],
         rng |-> s10]

\* The loop `for i in range(10)` run from generator state s with acc the
\* results so far: the results list and the state left behind.
RECURSIVE MockLoop(_, _, _, _, _, _, _)
MockLoop(s, todo, acc, industry, location, page, salt) ==
    IF todo = 0 THEN [out |-> acc, rng |-> s]
    ELSE LET r == MockRecord(s, industry, location, page, salt)
         IN  MockLoop(r.rng, todo - 1, Append(acc, r.rec),
                      industry, location, page, salt)

SeededStateStale(cur, industry, location, page) == cur

\* The generator state after line 85, given the state cur it had before.
SeededState(cur, industry, location, page) ==
    SeedOf(SeedKey(industry, location, page))

\* mock_scout_service called with the process-wide generator in state cur
mock_scout_service(cur, industry, location, page, salt) ==
    MockLoop(SeededState(cur, industry, location, page), NumLeads, <<>>,
             industry, location, page, salt)

\* ------------------------------------------------------- the model client
\* What model.generate_content(...) followed by json.loads(response.text)
\* meets: the call raises, the text is not JSON, or the text parses to v.
\* A parsed top-level value is [t, a, keys, s]: an array of items, an object
\* with its keys, a string with its pieces, a number or null.  An array item
\* is [t, f]: an object with its dict f, or a string.
Dict0 == [k \in {} |-> Null]
ObjItem(f) == [t |-> "obj", f |-> f]
StrItem == [t |-> "str", f |-> Dict0]

GoodDict ==
    [name |-> Str(<<"Joe's", " ", "Diner">>), industry |-> Str(<<"Diner">>),
     location |-> Str(<<"Ely">>), website |-> Null, phone |-> Str(<<"555-0100">>),
     email |-> Null, rating |-> Num(45), review_count |-> Num(12)]
Without(f, key) == [k \in (DOMAIN f) \ {key} |-> f[k]]
With(f, key, v) == [k \in (DOMAIN f) \cup {key} |-> IF k = key THEN v ELSE f[k]]

ItemKinds ==
    { ObjItem(GoodDict),                         \* every key, well typed
      ObjItem(Without(GoodDict, "name")),        \* no "name" key
      ObjItem(With(GoodDict, "name", Null)),     \* "name": null
      ObjItem(With(GoodDict, "phone", Null)),    \* "phone": null
      StrItem }                                  \* a string, not an object

JArr(items) == [t |-> "arr", a |-> items, keys |-> <<>>, s |-> <<>>]
JObj(keys) == [t |-> "obj", a |-> <<>>, keys |-> keys, s |-> <<>>]
JStr(pieces) == [t |-> "str", a |-> <<>>, keys |-> <<>>, s |-> pieces]
JNum == [t |-> "num", a |-> <<>>, keys |-> <<>>, s |-> <<>>]
JNull == [t |-> "null", a |-> <<>>, keys |-> <<>>, s |-> <<>>]

Arrays ==
    { JArr(a) : a \in UNION { [1..k -> ItemKinds] : k \in 0..MaxItems } }
        \cup { JArr([k \in 1..NumLeads |-> ObjItem(GoodDict)]) }

Raises == [r |-> "raise", v |-> JNull]
NotJson == [r |-> "notjson", v |-> JNull]
Parsed(v) == [r |-> "json", v |-> v]

ScoutResponses ==
    { Raises, NotJson }
        \cup { Parsed(v) : v \in Arrays \cup { JObj(<<>>), JObj(<<"error">>),
                                               JStr(<<>>), JStr(<<"none">>),
                                               JNum, JNull } }

\* ------------------------------------------------------- ai_scout_service
\* dict.get(key, default)
DictGet(f, key, default) == IF key \in DOMAIN f THEN f[key] ELSE default

\* `for item in data`: the items iterated, or a TypeError for a value that
\* is not iterable.  A dict iterates its keys and a string its characters,
\* all of them strings.
Iterable(v) == v.t \in {"arr", "obj", "str"}
IterItems(v) ==
    CASE v.t = "arr" -> v.a
      [] v.t = "obj" -> [k \in 1..Len(v.keys) |-> StrItem]
      [] v.t = "str" -> [k \in 1..Len(v.s) |-> StrItem]
      [] OTHER -> <<>>

\* The loop body raises AttributeError when item has no .get (line 167) or
\* when the value under "name" has no .encode (line 167).
ItemRaises(item) ==
    \/ item.t # "obj"
    \/ DictGet(item.f, "name", Str(<<>>)).t # "str"

AiRecord(item, industry, location) ==
    LET name == DictGet(item.f, "name", Str(<<"Unknown">>)).s
        sanitized == Lower(ReplaceSpace(name, ""))
    IN  [id |-> Str(<<"biz_">> \o Md5Hex10(DictGet(item.f, "name", Str(<<>>)).s)),
         name |-> Str(name),
         industry |-> DictGet(item.f, "industry", Str(industry)),
         location |-> DictGet(item.f, "location", Str(location)),
         website |-> DictGet(item.f, "website", Null),
         phone |-> DictGet(item.f, "phone", Str(<<"N/A">>)),
         email |-> DictGet(item.f, "email", Null),
         social_media |->
            << Social("linkedin", "https://linkedin.com/company/", sanitized),
               Social("twitter", "https://twitter.com/", sanitized) >>,
         source_url |-> Str(SearchUrl(name, location)),
         rating |-> DictGet(item.f, "rating", Null),
         review_count |-> DictGet(item.f, "review_count", Null)]

\* Lines 164-193: the results built item by item; ok is FALSE when an item
\* raised, and out then holds what had been appended before it.
RECURSIVE AiLoop(_, _, _, _)
AiLoop(items, acc, industry, location) ==
    IF items = <<>> THEN [ok |-> TRUE, out |-> acc]
    ELSE IF ItemRaises(Head(items)) THEN [ok |-> FALSE, out |-> acc]
    ELSE AiLoop(Tail(items), Append(acc, AiRecord(Head(items), industry, location)),
                industry, location)

\* What the except branch of lines 194-196 returns, given the results built
\* before the exception.
Fallback(partial, cur, industry, location, page, salt) ==
    LET m == mock_scout_service(cur, industry, location, page, salt)
    IN  [out |-> m.out, rng |-> m.rng, via |-> "fallback"]

\* ai_scout_service with the generator in state cur, client configured or
\* not, and resp what the client meets: the list returned, the generator
\* state left, and the branch that returned.
ai_scout_service(cur, configured, resp, industry, location, page, salt) ==
    IF ~configured
    THEN LET m == mock_scout_service(cur, industry, location, page, salt)
         IN  [out |-> m.out, rng |-> m.rng, via |-> "nomodel"]
    ELSE IF resp.r # "json" \/ ~Iterable(resp.v)
    THEN Fallback(<<>>, cur, industry, location, page, salt)
    ELSE LET l == AiLoop(IterItems(resp.v), <<>>, industry, location)
         IN  IF l.ok THEN [out |-> l.out, rng |-> cur, via |-> "model"]
             ELSE Fallback(l.out, cur, industry, location, page, salt)

\* response_model=List[BusinessProfile] (lines 50-61, 268): the required
\* fields are strings, the optional ones may be null.
ValidProfile(p) ==
    /\ p.id.t = "str" /\ p.name.t = "str" /\ p.industry.t = "str"
    /\ p.location.t = "str" /\ p.phone.t = "str"
    /\ p.website.t \in {"str", "null"} /\ p.email.t \in {"str", "null"}
    /\ p.source_url.t \in {"str", "null"}
    /\ p.rating.t \in {"num", "null"} /\ p.review_count.t \in {"num", "null"}

\* The status the framework answers with for a handler's return value.
ScoutStatus(out) ==
    IF \A k \in 1..Len(out) : ValidProfile(out[k]) THEN 200 ELSE 500

\* --------------------------------------------- generate_audit_and_message
\* A value of an audit result: a string, a number, or a list of strings
\* (s holds one piece per element).
StrList(elems) == [t |-> "list", s |-> elems, n |-> 0]

\* A result is [t, f]: a JSON object with its dict f, another JSON value, or
\* Python's None.
AObj(f) == [t |-> "obj", f |-> f]
NoneResult == [t |-> "none", f |-> Dict0]

NoModelResult ==
    AObj([audit_score |-> Num(45),
          pain_points |-> StrList(<<"No API Key Detected", "Cannot analyze real data",
                                    "Please set GEMINI_API_KEY">>),
          improvements |-> StrList(<<"Add API Key to backend", "Restart server">>),
          outreach_message |->
              Str(<<"System Error: Please configure the AI backend.">>)])

RateLimitResult ==
    AObj([audit_score |-> Num(0),
          pain_points |-> StrList(<<"Rate Limit Hit">>),
          improvements |-> StrList(<<"Wait 60 seconds", "Try again">>),
          outreach_message |->
              Str(<<"Google Gemini API Rate Limit Exceeded. Please wait a minute and try again.">>)])

GenericErrorResult ==
    AObj([audit_score |-> Num(0),
          pain_points |-> StrList(<<"AI Error">>),
          improvements |-> StrList(<<"Check console logs">>),
          outreach_message |-> Str(<<"Error generating message.">>)])

\* What the model's text parses to in the audit.
FullAudit ==
    [audit_score |-> Num(25),
     pain_points |-> StrList(<<"No website", "No reviews", "No socials">>),
     improvements |-> StrList(<<"Build site", "Collect reviews", "Open profiles">>),
     outreach_message |-> Str(<<"Subject: Your online presence">>)]

AuditJson ==
    { AObj(FullAudit),                                    \* the four fields
      AObj(With(FullAudit, "audit_score", Num(80))),
      AObj(Without(FullAudit, "outreach_message")),       \* a field missing
      AObj(With(FullAudit, "audit_score", Str(<<"low">>))), \* a score in words
      [t |-> "arr", f |-> Dict0] }                        \* a JSON array

\* str(e) of the exceptions the try block meets, as pieces.
ErrMsgs ==
    { <<"429", " ", "Resource has been exhausted">>,
      <<"Quota exceeded", " ", "for quota metric">>,
      <<"503", " ", "Service Unavailable">>,
      <<"Connection reset by peer">>,
      <<"Expecting value: line 1 column 1 (char ", "0", ")">>,
      <<"Expecting ',' delimiter: line 9 column 2 (char ", "429", ")">> }

\* One attempt's outcome: the text parsed to v, or an exception with msg
\* (raised by the call, or by json.loads on text that is not JSON).
AuditOutcomes ==
    { [r |-> "json", v |-> v, msg |-> <<>>] : v \in AuditJson }
        \cup { [r |-> "raise", v |-> NoneResult, msg |-> m] : m \in ErrMsgs }

RateLimitedAnyStatus(msg) ==
    \E k \in 1..Len(msg) : msg[k] \in {"429", "503", "Quota exceeded"}

\* "429" in str(e) or "Quota exceeded" in str(e)
RateLimited(msg) ==
    \E k \in 1..Len(msg) : msg[k] \in {"429", "Quota exceeded"}

RetryAllowedOffByOne(attempt) == attempt < max_retries

\* attempt < max_retries - 1, attempt counted from 0
RetryAllowed(attempt) == attempt < max_retries - 1

BackoffSkipped(elapsed) == elapsed

\* time.sleep(retry_delay): the time slept so far
Backoff(elapsed) == elapsed + retry_delay

\* One pass of the loop of lines 236-260 at index attempt: "return" with the
\* value returned, or "retry" after the sleep.
AttemptStep(attempt, o) ==
    IF o.r = "json" THEN [do |-> "return", res |-> o.v]
    ELSE IF RateLimited(o.msg)
    THEN IF RetryAllowed(attempt) THEN [do |-> "retry", res |-> NoneResult]
         ELSE [do |-> "return", res |-> RateLimitResult]
    ELSE [do |-> "return", res |-> GenericErrorResult]

\* response_model=AnalysisResult (lines 69-73, 273)
ValidAnalysis(res) ==
    /\ res.t = "obj"
    /\ {"audit_score", "pain_points", "improvements", "outreach_message"}
           \subseteq DOMAIN res.f
    /\ res.f["audit_score"].t = "num"
    /\ res.f["pain_points"].t = "list"
    /\ res.f["improvements"].t = "list"
    /\ res.f["outreach_message"].t = "str"

AnalyzeStatus(res) == IF ValidAnalysis(res) THEN 200 ELSE 500

\* =================================================================== state
VARIABLES
    configured,   \* `model` is not None (lines 35-39); fixed at startup
    hashseed,     \* the process's string-hash seed; fixed at startup
    rng,          \* state of the module-level generator of `random`
    \* POST /api/scout, one request at a time
    spc, sreq, sresp, sout, svia, sstatus,
    \* mock_scout_service called again and again in one process
    last, ref, between,
    \* POST /api/scout without a client, two requests on two worker threads
    th,
    \* POST /api/analyze
    apc, attempt, calls, sleeps, slept, alog, hist, aresult, astatus

cfgVars == <<configured, hashseed>>
scoutVars == <<spc, sreq, sresp, sout, svia, sstatus>>
mockVars == <<last, ref, between>>
auditVars == <<apc, attempt, calls, sleeps, slept, alog, hist, aresult, astatus>>
vars == <<configured, hashseed, rng, spc, sreq, sresp, sout, svia, sstatus,
          last, ref, between, th,
          apc, attempt, calls, sleeps, slept, alog, hist, aresult, astatus>>

Threads == {1, 2}
Req(industry, location, page) ==
    [industry |-> industry, location |-> location, page |-> page]
NoReq == Req(<<>>, <<>>, 0)
NoResp == [r |-> "none", v |-> JNull]

ScoutIdle ==
    /\ spc = "idle" /\ sreq = NoReq /\ sresp = NoResp /\ sout = <<>>
    /\ svia = "none" /\ sstatus = 0
MockIdle ==
    /\ last = [req |-> NoReq, out |-> <<>>]
    /\ ref = [set |-> FALSE, req |-> NoReq, out |-> <<>>]
    /\ between = FALSE
ThreadsIdle ==
    th = [i \in Threads |->
            [pc |-> "idle", req |-> NoReq, out |-> <<>>]]
AuditIdle ==
    /\ apc = "idle" /\ attempt = 0 /\ calls = 0 /\ sleeps = 0 /\ slept = 0
    /\ alog = <<>> /\ hist = <<>> /\ aresult = NoneResult /\ astatus = 0

\* ========================================================== POST /api/analyze
\* A request reaches analyze (line 274).
AnalyzeArrive ==
    /\ apc \in {"idle", "done"}
    /\ apc' = "called"
    /\ attempt' = 0 /\ calls' = 0 /\ sleeps' = 0 /\ slept' = 0
    /\ alog' = <<>> /\ hist' = <<>> /\ aresult' = NoneResult /\ astatus' = 0
    /\ UNCHANGED <<cfgVars, rng, scoutVars, mockVars, th>>

\* Lines 199-206: no client, the fixed result.
AnalyzeNoModel ==
    /\ apc = "called" /\ ~configured
    /\ aresult' = NoModelResult
    /\ astatus' = AnalyzeStatus(NoModelResult)
    /\ apc' = "done"
    /\ UNCHANGED <<attempt, calls, sleeps, slept, alog, hist>>
    /\ UNCHANGED <<cfgVars, rng, scoutVars, mockVars, th>>

\* Lines 208-234: the prompt is built and the loop entered.
AnalyzeEnterLoop ==
    /\ apc = "called" /\ configured
    /\ apc' = "loop"
    /\ UNCHANGED <<attempt, calls, sleeps, slept, alog, hist, aresult, astatus>>
    /\ UNCHANGED <<cfgVars, rng, scoutVars, mockVars, th>>

\* One pass of `for attempt in range(max_retries)` with outcome o; a return
\* goes through the response model of line 273.  The loop running out after
\* a retry makes the function return None.
AuditAttempt(o) ==
    /\ apc = "loop" /\ attempt < max_retries
    /\ LET step == AttemptStep(attempt, o)
           exhausted == step.do = "retry" /\ attempt + 1 >= max_retries
           res == IF exhausted THEN NoneResult ELSE step.res
       IN  /\ calls' = calls + 1
           /\ hist' = Append(hist, o)
           /\ IF step.do = "retry"
              THEN /\ sleeps' = sleeps + 1
                   /\ slept' = Backoff(slept)
                   /\ alog' = alog \o <<"call", "sleep">>
                   /\ attempt' = attempt + 1
              ELSE /\ alog' = Append(alog, "call")
                   /\ UNCHANGED <<sleeps, slept, attempt>>
           /\ IF step.do = "return" \/ exhausted
              THEN /\ aresult' = res
                   /\ astatus' = AnalyzeStatus(res)
                   /\ apc' = "done"
              ELSE UNCHANGED <<aresult, astatus, apc>>
    /\ UNCHANGED <<cfgVars, rng, scoutVars, mockVars, th>>

InitAudit ==
    /\ configured \in BOOLEAN
    /\ hashseed = 0 /\ rng = 0
    /\ ScoutIdle /\ MockIdle /\ ThreadsIdle /\ AuditIdle

NextAudit ==
    \/ AnalyzeArrive
    \/ AnalyzeNoModel
    \/ AnalyzeEnterLoop
    \/ \E o \in AuditOutcomes : AuditAttempt(o)

SpecAudit == InitAudit /\ [][NextAudit]_vars

\* ------------------------------------------- properties of the audit loop
\* The claims' own reading of an attempt's outcome, from the message text.
SignalsRateLimit(o) ==
    /\ o.r = "raise"
    /\ \E k \in 1..Len(o.msg) : o.msg[k] = "429" \/ o.msg[k] = "Quota exceeded"
OtherError(o) == o.r = "raise" /\ ~SignalsRateLimit(o)
Alternating(log) ==
    \A k \in 1..Len(log) : log[k] = (IF k % 2 = 1 THEN "call" ELSE "sleep")

\* C1: with a model configured, three consecutive rate-limit-signaling
\* failures end in the rate-limit result (audit_score 0, the rate-limit pain
\* point and message) after exactly two sleeps: call, sleep, call, sleep, call.
C1_ThreeRateLimits ==
    (/\ apc = "done" /\ configured /\ Len(hist) >= 3
     /\ \A k \in 1..3 : SignalsRateLimit(hist[k]))
    => /\ aresult.t = "obj"
       /\ aresult.f["audit_score"] = Num(0)
       /\ aresult.f["pain_points"] = StrList(<<"Rate Limit Hit">>)
       /\ aresult.f["outreach_message"] =
            Str(<<"Google Gemini API Rate Limit Exceeded. Please wait a minute and try again.">>)
       /\ sleeps = 2 /\ calls = 3
       /\ alog = <<"call", "sleep", "call", "sleep", "call">>
C1_Witness ==
    /\ apc = "done" /\ Len(hist) = 3
    /\ \A k \in 1..3 : SignalsRateLimit(hist[k])

\* C2: an error that does not signal rate limiting, on whichever attempt, is
\* the last thing the loop does: the generic-error result is returned, with
\* no sleep and no model call after the failing call.
C2_OtherErrorReturnsAtOnce ==
    \A k \in 1..Len(hist) :
        OtherError(hist[k])
        => /\ k = Len(hist) /\ calls = k
           /\ apc = "done"
           /\ aresult.t = "obj"
           /\ aresult.f["audit_score"] = Num(0)
           /\ aresult.f["pain_points"] = StrList(<<"AI Error">>)
           /\ sleeps = k - 1
           /\ Len(alog) = 2 * k - 1 /\ Alternating(alog)
C2_Witness ==
    /\ apc = "done" /\ Len(hist) = 3
    /\ SignalsRateLimit(hist[1]) /\ SignalsRateLimit(hist[2])
    /\ OtherError(hist[3])

\* C9: when attempts 1..k-1 fail signaling rate limiting and attempt k's text
\* parses, the parsed value of attempt k is returned unchanged after exactly
\* k-1 sleeps of 60 each, every sleep between a failed call and the next call.
C9_SuccessAfterRetries ==
    \A k \in 1..Len(hist) :
        (/\ hist[k].r = "json"
         /\ \A j \in 1..(k - 1) : SignalsRateLimit(hist[j]))
        => /\ k = Len(hist) /\ apc = "done"
           /\ aresult = hist[k].v
           /\ sleeps = k - 1 /\ slept = 60 * (k - 1)
           /\ Len(alog) = 2 * k - 1 /\ Alternating(alog)
C9_Witness ==
    /\ apc = "done" /\ Len(hist) = 3 /\ hist[3].r = "json"
    /\ SignalsRateLimit(hist[1]) /\ SignalsRateLimit(hist[2])

\* C10: whatever the outcomes, the loop makes at most 3 model calls and 2
\* sleeps, is never left without a return (no pass remains to run only once
\* the function has returned, and what it returned is not None), and at the
\* return the sleeps number the calls minus one.
C10_BoundedLoop ==
    /\ calls <= 3 /\ sleeps <= 2
    /\ apc = "loop" => (attempt < 3 /\ calls = attempt /\ sleeps = attempt)
    /\ (apc = "done" /\ configured)
       => (/\ aresult.t # "none"
           /\ calls >= 1 /\ sleeps = calls - 1)
C10_Witness ==
    /\ apc = "done" /\ configured /\ calls = 3 /\ sleeps = 2
    /\ OtherError(hist[3])

\* C7 (as claimed): every failure of the model call in /api/analyze ends in
\* a 200 whose body is a valid AnalysisResult with all four fields.
C7_AnalyzeAlwaysWellFormed ==
    apc = "done"
    => /\ astatus = 200
       /\ aresult.t = "obj"
       /\ {"audit_score", "pain_points", "improvements", "outreach_message"}
              \subseteq DOMAIN aresult.f

\* ============================================================ POST /api/scout
\* A request reaches scout (line 269).
ScoutArrive(industry, location, page) ==
    /\ spc = "idle"
    /\ spc' = "pending"
    /\ sreq' = Req(industry, location, page)
    /\ sresp' = NoResp /\ sout' = <<>> /\ svia' = "none" /\ sstatus' = 0
    /\ UNCHANGED <<cfgVars, rng, mockVars, th, auditVars>>

\* scout: ai_scout_service runs to its return, resp being what the client
\* meets when one is configured, and the list goes through the response
\* model of line 268.
ScoutHandle(resp) ==
    /\ spc = "pending"
    /\ \E r \in { ai_scout_service(rng, configured, resp, sreq.industry,
                                    sreq.location, sreq.page, hashseed) } :
           /\ sout' = r.out
           /\ svia' = r.via
           /\ rng' = r.rng
           /\ sstatus' = ScoutStatus(r.out)
    /\ sresp' = resp
    /\ spc' = "done"
    /\ UNCHANGED <<cfgVars, sreq, mockVars, th, auditVars>>

\* The response is sent and the worker takes the next request.
ScoutRespond ==
    /\ spc = "done"
    /\ spc' = "idle" /\ sreq' = NoReq /\ sresp' = NoResp /\ sout' = <<>>
    /\ svia' = "none" /\ sstatus' = 0
    /\ UNCHANGED <<cfgVars, rng, mockVars, th, auditVars>>

InitScout ==
    /\ configured \in BOOLEAN
    /\ hashseed = 0
    /\ rng = 0
    /\ ScoutIdle /\ MockIdle /\ ThreadsIdle /\ AuditIdle

NextScout ==
    \/ \E i \in Industries, l \in Locations, p \in Pages : ScoutArrive(i, l, p)
    \/ configured /\ \E resp \in ScoutResponses : ScoutHandle(resp)
    \/ ~configured /\ ScoutHandle(NoResp)
    \/ ScoutRespond

SpecScout == InitScout /\ [][NextScout]_vars

\* -------------------------------------------- properties of the scout path
\* The value is a JSON array whose items are all objects.
ArrayOfObjects(v) ==
    v.t = "arr" /\ \A k \in 1..Len(v.a) : v.a[k].t = "obj"

\* C3 (as claimed): with a model configured, whenever the model call raises,
\* the text is not JSON or the parsed JSON is not an array of objects, the
\* list returned is the one mock_scout_service returns for the same
\* industry, location and page.
C3_AnyFailureFallsBack ==
    (/\ spc = "done" /\ configured
     /\ (sresp.r \in {"raise", "notjson"} \/ ~ArrayOfObjects(sresp.v)))
    => sout = MockLoop(SeedOf(SeedKey(sreq.industry, sreq.location, sreq.page)),
                       10, <<>>, sreq.industry, sreq.location, sreq.page,
                       hashseed).out

\* C4 (as claimed): scout returns exactly 10 profiles in both variants,
\* whatever the number of items of the model's JSON array.
C4_AlwaysTenProfiles ==
    (/\ spc = "done"
     /\ (svia \in {"nomodel", "fallback"} \/ (sresp.r = "json" /\ sresp.v.t = "arr")))
    => Len(sout) = 10

\* ============================== mock_scout_service, call after call
\* One call of mock_scout_service in a process that may have made others
\* before.  ref remembers the first call and between tells whether a call
\* with other arguments was made since.
MockCall(industry, location, page) ==
    \E m \in { mock_scout_service(rng, industry, location, page, hashseed) } :
        /\ rng' = m.rng
        /\ last' = [req |-> Req(industry, location, page), out |-> m.out]
        /\ IF ~ref.set
           THEN /\ ref' = [set |-> TRUE, req |-> Req(industry, location, page),
                           out |-> m.out]
                /\ between' = FALSE
           ELSE /\ ref' = ref
                /\ between' = (between \/ ref.req # Req(industry, location, page))
        /\ UNCHANGED <<cfgVars, scoutVars, th, auditVars>>

\* The generator starts in whatever state the import of `random` left it.
InitMock ==
    /\ configured = FALSE
    /\ hashseed \in {0, 1}
    /\ rng \in 0..(RngMod - 1)
    /\ ScoutIdle /\ MockIdle /\ ThreadsIdle /\ AuditIdle

NextMock ==
    \E i \in Industries, l \in Locations, p \in Pages : MockCall(i, l, p)

SpecMock == InitMock /\ [][NextMock]_vars

Names(out) == [k \in 1..Len(out) |-> out[k].name.s]

\* C6: a call of mock_scout_service returns what an earlier call with the
\* same industry, location and page returned in this process, whatever calls
\* with other arguments were made in between.
C6_SameArgumentsSameOutput ==
    (ref.set /\ last.req = ref.req) => last.out = ref.out
C6_Witness ==
    /\ ref.set /\ last.req = ref.req /\ between
    /\ Len(last.out) = 10

EndsWith(pieces, tail) ==
    /\ Len(pieces) >= Len(tail)
    /\ SubSeq(pieces, Len(pieces) - Len(tail) + 1, Len(pieces)) = tail
Annotated(call) ==
    call.req.page > 1 =>
        \A k \in 1..Len(call.out) :
            EndsWith(call.out[k].name.s, <<" ">> \o IntStr(call.req.page))
TArrive(i, industry, location, page) ==
    /\ th[i].pc = "idle"
    /\ th' = [th EXCEPT ![i] = [pc |-> "sleeping", req |-> Req(industry, location, page),
                                out |-> <<>>]]
    /\ UNCHANGED <<cfgVars, rng, scoutVars, mockVars, auditVars>>

\* Line 85 on thread i: the shared generator is reseeded, whatever another
\* thread had seeded it with.
TSeed(i) ==
    /\ th[i].pc = "sleeping"
    /\ rng' = SeededState(rng, th[i].req.industry, th[i].req.location, th[i].req.page)
    /\ th' = [th EXCEPT ![i].pc = "seeded"]
    /\ UNCHANGED <<cfgVars, scoutVars, mockVars, auditVars>>

\* Lines 87-129 on thread i: the loop draws from the shared generator as it
\* finds it, and the list is returned.
TGenerate(i) ==
    /\ th[i].pc = "seeded"
    /\ \E m \in { MockLoop(rng, NumLeads, <<>>, th[i].req.industry,
                           th[i].req.location, th[i].req.page, hashseed) } :
          /\ rng' = m.rng
          /\ th' = [th EXCEPT ![i].pc = "done", ![i].out = m.out]
    /\ UNCHANGED <<cfgVars, scoutVars, mockVars, auditVars>>

InitThreads ==
    /\ configured = FALSE
    /\ hashseed = 0
    /\ rng = 0
    /\ ScoutIdle /\ MockIdle /\ ThreadsIdle /\ AuditIdle

NextThreads ==
    \E i \in Threads :
        \/ \E ind \in Industries, l \in Locations, p \in Pages : TArrive(i, ind, l, p)
        \/ TSeed(i)
        \/ TGenerate(i)

SpecThreads == InitThreads /\ [][NextThreads]_vars

\* C5 (as claimed): requests share nothing that one of them writes, so a
\* request handled while another is being handled returns what it would
\* return if it were handled alone.
C5_RequestsIsolated ==
    \A i \in Threads :
        th[i].pc = "done"
        => th[i].out =
             MockLoop(SeedOf(SeedKey(th[i].req.industry, th[i].req.location,
                                     th[i].req.page)),
                      10, <<>>, th[i].req.industry, th[i].req.location,
                      th[i].req.page, hashseed).out
====
